---- MODULE Spec2Model ----
(***************************************************************************)
(* Portfolio position lifecycle of the Peter Lynch screener (V5).          *)
(*                                                                         *)
(* The ledger (PortfolioHistoryManager.history) maps a ticker to a         *)
(* position record.  One run of the script categorizes the validated       *)
(* stocks (_step4_categorize) and then reconciles and allocates            *)
(* (update_from_portfolio, called from _step6_gpt_analysis).               *)
(*                                                                         *)
(* Tickers are numbered 1..NumTickers.  `today` is the number of the run   *)
(* (one run per week), and the price a stock is quoted at in a run is      *)
(* PriceOf(ticker, today).                                                 *)
(*                                                                         *)
(* Spec takes a whole run as one step.  SpecProcess follows one process    *)
(* through its steps (load, categorize, analyse, reconcile, allocate,      *)
(* save) with the history file as a variable, so that a failing step, a    *)
(* failing write or a killed process can be looked at; the V6 script,      *)
(* which keeps its own layout in the same file, runs between processes.    *)
(***************************************************************************)
EXTENDS Integers, Sequences, FiniteSets, TLC

\* ---------------------------------------------------------------- bounds
MaxWeek == 6
NumTickers == 13
MaxRuns == 3
MaxRunsPerWeek == 2

\* ------------------------------------------------------ program constants
MAX_STAGE == 3
STAGE_WEIGHTS == <<3, 3, 4>>
MAX_CHINA_COUNT == 1
GRACE_WEEKS == 2
ENTRY_WEIGHT == 3
TOTAL_WEIGHT == 100
POSITION_WEIGHT == 10
CATEGORY_FACTOR == 100
RANK_BASE == 10

Categories == <<"best_value", "high_growth", "balanced">>
CategorySet == {"best_value", "high_growth", "balanced"}
category_targets == [best_value |-> 4, high_growth |-> 4, balanced |-> 2]

Tickers == 1..NumTickers

\* history            self.history: the records kept under ticker keys
\* foreign            the keys of self.history whose values are no records
\* categorized_stocks self.categorized_stocks
\* week               today
\* store              the contents of portfolio_history.json
\* store_at_load      the contents the running process loaded
\* pc                 the step the running process has reached
\* advice             what analyze_portfolio returned
\* result             how the last process ended
\* runs_today         how many runs of the script the date `today` has seen
\* v6                 the V6 script's final_10, changes, analysis and trade log
\* new_entries        the sorted pool of the last allocation
\* max_new            the number of admissions the last allocation allowed
VARIABLES history, categorized_stocks, week, foreign, store, store_at_load, pc, advice, result,
          runs_today, v6, new_entries, max_new
vars == <<history, categorized_stocks, week, foreign, store, store_at_load, pc, advice, result,
          runs_today, v6, new_entries, max_new>>

\* -------------------------------------------------------------- helpers
Min(a, b) == IF a <= b THEN a ELSE b
Max(a, b) == IF a >= b THEN a ELSE b
Range(s) == {s[i] : i \in 1..Len(s)}
\* Python s[:n]
PySlice(s, n) ==
    IF n >= 0 THEN SubSeq(s, 1, Min(n, Len(s)))
    ELSE SubSeq(s, 1, Max(Len(s) + n, 0))
\* Python list.index(x) + 1
IndexOf(s, x) == CHOOSE i \in 1..Len(s) : s[i] = x /\ \A j \in 1..(i - 1) : s[j] # x
RECURSIVE SumOver(_, _)
SumOver(S, f) ==
    IF S = {} THEN 0
    ELSE LET x == CHOOSE y \in S : TRUE IN f[x] + SumOver(S \ {x}, f)
RECURSIVE Concat(_)
Concat(ss) == IF Len(ss) = 0 THEN <<>> ELSE Head(ss) \o Concat(Tail(ss))

\* The quote of a stock in the run of week w, and its China flag.
PriceOf(t, w) == 10 * t + w
ChinaTickers == {1, 6}
IsChina(t) == t \in ChinaTickers

\* A ticker that has no record in the ledger.
NoPosition ==
    [category |-> "none", stage |-> 0, current_weight_pct |-> 0, status |-> "NONE",
     entry_date |-> 0, entry_price |-> 0, last_update |-> 0, current_price |-> 0,
     current_rank |-> 0, hold_weeks |-> 0, sold_date |-> 0, sold_reason |-> "none"]

\* ---------------------------------------------------- update_from_portfolio
ActiveTickers(h) == {t \in Tickers : h[t].status = "ACTIVE"}

\* the snapshot without the status filter
AllRecorded(h) == {t \in Tickers : h[t].status # "NONE"}

\* active = {k: v for k, v in self.history.items() if v.get('status') == 'ACTIVE'}
ActiveSnapshot(h) == {t \in Tickers : h[t].status = "ACTIVE"}

\* current_top_by_category[category]: stocks[:target_count * 2], rank = position
TopList(stocks, category) == PySlice(stocks[category], category_targets[category] * 2)
InCategoryTop(t, stocks, category) == t \in Range(TopList(stocks, category))
\* ranks counted from 0
RankInZeroBased(t, stocks, category) == IndexOf(TopList(stocks, category), t) - 1

\* for i, stock in enumerate(stocks[:target_count * 2], 1): 'rank': i
RankIn(t, stocks, category) == IndexOf(TopList(stocks, category), t)
InTarget(t, stocks, category) ==
    /\ InCategoryTop(t, stocks, category)
    /\ RankIn(t, stocks, category) <= category_targets[category]

\* the stage's share written over the weight
NewWeightAssigned(prev_weight, new_stage) == STAGE_WEIGHTS[new_stage]

\* every stage adds the share of the first
NewWeightFlat(prev_weight, new_stage) == prev_weight + ENTRY_WEIGHT

\* the increment looked up by the stage the position is leaving
NewWeightOfOldStage(prev_weight, new_stage) == prev_weight + STAGE_WEIGHTS[new_stage - 1]

\* new_weight = prev_weight + self.STAGE_WEIGHTS[new_stage]
NewWeight(prev_weight, new_stage) == prev_weight + STAGE_WEIGHTS[new_stage]

\* the threshold has to be exceeded
SellDueStrict(hold_weeks) == hold_weeks > GRACE_WEEKS

\* the test on a snapshot copied before the increment
SellDueOnCopy(hold_weeks) == hold_weeks - 1 >= GRACE_WEEKS

\* if info.get('hold_weeks', 0) >= 2: info is the ledger's own record, so the
\* value tested is the one just incremented
SellDue(hold_weeks) == hold_weeks >= GRACE_WEEKS

\* 1. one pass of the loop over the ACTIVE records
ReconcilePosition(t, info, stocks, today) ==
    LET category == info.category
        is_in_category_top == InCategoryTop(t, stocks, category)
    IN  IF info.stage < MAX_STAGE
        THEN LET new_stage == info.stage + 1
                 adv == [info EXCEPT !.stage = new_stage,
                                     !.last_update = today,
                                     !.current_weight_pct = NewWeight(@, new_stage)]
             IN  IF is_in_category_top
                 THEN [adv EXCEPT !.current_price = PriceOf(t, today),
                                  !.current_rank = RankIn(t, stocks, category)]
                 ELSE adv
        ELSE IF is_in_category_top
        THEN LET rank == RankIn(t, stocks, category)
                 upd == [info EXCEPT !.last_update = today,
                                     !.current_price = PriceOf(t, today),
                                     !.current_rank = rank,
                                     !.hold_weeks = @ + 1]
             IN  IF rank <= category_targets[category]
                 THEN upd
                 ELSE IF SellDue(upd.hold_weeks)
                      THEN [upd EXCEPT !.status = "SOLD", !.sold_date = today,
                                       !.sold_reason = "rank_outside_target"]
                      ELSE upd
        ELSE LET upd == [info EXCEPT !.last_update = today, !.hold_weeks = @ + 1]
             IN  IF SellDue(upd.hold_weeks)
                 THEN [upd EXCEPT !.status = "SOLD", !.sold_date = today,
                                  !.sold_reason = "dropped_from_list"]
                 ELSE upd

\* for ticker, info in list(active.items()): the records are updated in place
RECURSIVE ReconcileLoop(_, _, _, _)
ReconcileLoop(h, active, stocks, today) ==
    IF active = {} THEN h
    ELSE LET t == CHOOSE x \in active : TRUE
         IN  ReconcileLoop([h EXCEPT ![t] = ReconcilePosition(t, h[t], stocks, today)],
                           active \ {t}, stocks, today)

Reconcile(h, stocks, today) == ReconcileLoop(h, ActiveSnapshot(h), stocks, today)

\* 2. category_status
ActiveInCategory(h, cat) == {t \in Tickers : h[t].status = "ACTIVE" /\ h[t].category = cat}
CategoryWeight(h, cat) ==
    SumOver(ActiveInCategory(h, cat), [t \in Tickers |-> h[t].current_weight_pct])
CategoryStatus(h, cat) ==
    LET active_in_category == ActiveInCategory(h, cat)
        completed == Cardinality({t \in active_in_category : h[t].stage >= MAX_STAGE})
    IN  [target_count |-> category_targets[cat],
         target_weight |-> category_targets[cat] * POSITION_WEIGHT,
         current_count |-> Cardinality(active_in_category),
         completed_count |-> completed,
         current_weight |-> CategoryWeight(h, cat),
         need_more |-> category_targets[cat] - completed,
         available_slots |-> category_targets[cat] - Cardinality(active_in_category)]

\* 3. new entries
TotalWeight(h) == SumOver(ActiveTickers(h), [t \in Tickers |-> h[t].current_weight_pct])

\* the rank term weighted above the category term
PriorityScoreRankFirst(need_more, rank) == need_more + (RANK_BASE - rank) * CATEGORY_FACTOR

\* 'priority_score': cat_status['need_more'] * 100 + (10 - rank)
PriorityScore(need_more, rank) == need_more * CATEGORY_FACTOR + (RANK_BASE - rank)

\* the entry test without the look at the ledger status
EligibleAnyStatus(h, category, t) == t \notin ActiveInCategory(h, category)

\* if ticker not in owned_tickers:
\*     if ticker not in self.history or status in ['REMOVED', 'SOLD']:
Eligible(h, category, t) ==
    /\ t \notin ActiveInCategory(h, category)
    /\ h[t].status = "NONE" \/ h[t].status \in {"REMOVED", "SOLD"}

CategoryEntries(h, stocks, category, today) ==
    LET cat_status == CategoryStatus(h, category)
        top == TopList(stocks, category)
        IsEligible(t) == Eligible(h, category, t)
        pool == SelectSeq(top, IsEligible)
    IN  IF cat_status.available_slots > 0
        THEN [i \in 1..Len(pool) |->
                [ticker |-> pool[i], category |-> category,
                 rank |-> IndexOf(top, pool[i]),
                 price |-> PriceOf(pool[i], today),
                 priority_score |->
                     PriorityScore(cat_status.need_more, IndexOf(top, pool[i]))]]
        ELSE <<>>

NewEntries(h, stocks, today) ==
    Concat([k \in 1..Len(Categories) |-> CategoryEntries(h, stocks, Categories[k], today)])

\* new_entries.sort(key=lambda x: -x['priority_score']): stable, descending
SortByPriority(entries) ==
    LET n == Len(entries)
        Before(j, i) ==
            \/ entries[j].priority_score > entries[i].priority_score
            \/ entries[j].priority_score = entries[i].priority_score /\ j < i
        Pos(i) == Cardinality({j \in 1..n : Before(j, i)}) + 1
    IN  [k \in 1..n |-> entries[CHOOSE i \in 1..n : Pos(i) = k]]

\* max_new with the open slots summed over the categories that have some
MaxNewOpenCategories(h) ==
    LET available_weight == TOTAL_WEIGHT - TotalWeight(h)
        slots == SumOver(CategorySet,
                         [cat \in CategorySet |->
                            Max(CategoryStatus(h, cat).available_slots, 0)])
    IN  Min(available_weight \div ENTRY_WEIGHT, slots)

\* max_new without the cap by the open slots
MaxNewByWeightOnly(h) == (TOTAL_WEIGHT - TotalWeight(h)) \div ENTRY_WEIGHT

\* max_new = min(int(available_weight / 3), sum of available_slots)
MaxNew(h) ==
    LET available_weight == TOTAL_WEIGHT - TotalWeight(h)
        slots == SumOver(CategorySet,
                         [cat \in CategorySet |-> CategoryStatus(h, cat).available_slots])
    IN  Min(available_weight \div ENTRY_WEIGHT, slots)

NewRecord(entry, today) ==
    [category |-> entry.category, stage |-> 1, current_weight_pct |-> STAGE_WEIGHTS[1],
     status |-> "ACTIVE", entry_date |-> today, entry_price |-> entry.price,
     last_update |-> today, current_price |-> entry.price, current_rank |-> entry.rank,
     hold_weeks |-> 0, sold_date |-> 0, sold_reason |-> "none"]

\* new_entries after the sort; no pool is built when less than 3% is free
SortedPool(h, stocks, today) ==
    IF TOTAL_WEIGHT - TotalWeight(h) >= ENTRY_WEIGHT
    THEN SortByPriority(NewEntries(h, stocks, today))
    ELSE <<>>

\* max_new, and no admission when less than 3% is free
AdmissionLimit(h) == IF TOTAL_WEIGHT - TotalWeight(h) >= ENTRY_WEIGHT THEN MaxNew(h) ELSE 0

Admitted(h, stocks, today) ==
    IF TOTAL_WEIGHT - TotalWeight(h) >= ENTRY_WEIGHT
    THEN PySlice(SortByPriority(NewEntries(h, stocks, today)), MaxNew(h))
    ELSE <<>>

\* an entry whose ticker is ACTIVE by then is passed over
RECURSIVE AdmitFirstWins(_, _, _)
AdmitFirstWins(h, admitted, today) ==
    IF Len(admitted) = 0 THEN h
    ELSE AdmitFirstWins(IF h[Head(admitted).ticker].status = "ACTIVE" THEN h
                        ELSE [h EXCEPT ![Head(admitted).ticker] = NewRecord(Head(admitted), today)],
                        Tail(admitted), today)

\* for entry in new_entries[:max_new]: self.history[ticker] = {...}
RECURSIVE Admit(_, _, _)
Admit(h, admitted, today) ==
    IF Len(admitted) = 0 THEN h
    ELSE Admit([h EXCEPT ![Head(admitted).ticker] = NewRecord(Head(admitted), today)],
               Tail(admitted), today)

UpdateFromPortfolio(h, stocks, today) ==
    LET h1 == Reconcile(h, stocks, today)
    IN  Admit(h1, Admitted(h1, stocks, today), today)

\* ------------------------------------------------------- candidate sets
\* The lists _step4_categorize can hand over.  Each category ranks the stocks
\* that pass its filter (Pool); from one week to the next the best-ranked
\* stock of a list can fall to the last rank (Rotate) or drop out (Tail), a
\* list can be empty, and stock CrossTicker can pass the balanced filter too.
Pool(category) ==
    IF category = "best_value" THEN <<1, 2, 3, 4, 5>>
    ELSE IF category = "high_growth" THEN <<6, 7, 8, 9>>
    ELSE [i \in 1..(NumTickers - 9) |-> 9 + i]
CrossTicker == Head(Pool("best_value"))
Rotate(s) == IF Len(s) = 0 THEN s ELSE Tail(s) \o <<Head(s)>>
Variant(s, v) == IF v = "base" THEN s ELSE IF v = "rotate" THEN Rotate(s) ELSE Tail(s)
Categorize(v, cross) ==
    [best_value |-> Variant(Pool("best_value"), v),
     high_growth |-> Variant(Pool("high_growth"), v),
     balanced |-> IF cross THEN <<CrossTicker>> \o Variant(Pool("balanced"), v)
                  ELSE Variant(Pool("balanced"), v)]
NoCandidates == [c \in CategorySet |-> <<>>]
OnlyBestValue == [NoCandidates EXCEPT !.best_value = Pool("best_value")]
CandidateSets ==
    {Categorize(v, cross) : v \in {"base", "rotate", "tail"}, cross \in BOOLEAN}
        \cup {NoCandidates, OnlyBestValue}

\* ------------------------------------------------------ the history file
EmptyLedger == [t \in Tickers |-> NoPosition]

\* What portfolio_history.json can hold: nothing (no file), text that is no
\* JSON, the beginning of a dump that was cut short, a ledger, or the V6
\* layout {current_portfolio, weekly_recommendations, trade_log}.
File(kind, data, portfolio) == [kind |-> kind, data |-> data, portfolio |-> portfolio]
MissingFile == File("missing", EmptyLedger, <<>>)
MalformedFile == File("malformed", EmptyLedger, <<>>)
\* open(self.history_file, 'w') has emptied the file; json.dump has written
\* none or a part of the text
TruncatedFile == File("partial", EmptyLedger, <<>>)
\* json.dump(self.history, f) written to the end
Stored(h) == File("ledger", h, <<>>)
StoredV6(portfolio) == File("v6", EmptyLedger, portfolio)
V6Keys == {"current_portfolio", "weekly_recommendations", "trade_log"}

NoAdvice == [provider |-> "none", text |-> "none", top |-> NoCandidates]

\* The V6 script before _select_final_10: nothing selected or analysed yet.
NoReasons == [t \in {} |-> ""]
NoChanges == [hold |-> {}, new_buy |-> {}, excluded |-> {}]
NoAnalysis ==
    [hold |-> NoReasons, new_buy |-> NoReasons, sell |-> NoReasons, watch |-> NoReasons,
     provider |-> "none"]
NoV6 == [final_10 |-> <<>>, changes |-> NoChanges, analysis |-> NoAnalysis, trade_log |-> {}]

\* ------------------------------------------------------------ the machine
\* PortfolioHistoryManager() on a missing history file: an empty ledger.
Init ==
    /\ history = [t \in Tickers |-> NoPosition]
    /\ categorized_stocks = NoCandidates
    /\ week = 0
    /\ foreign = {}
    /\ store = MissingFile
    /\ store_at_load = MissingFile
    /\ pc = "idle"
    /\ advice = NoAdvice
    /\ result = "none"
    /\ runs_today = 0
    /\ v6 = NoV6
    /\ new_entries = <<>>
    /\ max_new = 0

\* One weekly run of the V5 script: _step4_categorize, then
\* update_from_portfolio (with its save) in _step6_gpt_analysis.
Run ==
    /\ week < MaxWeek
    /\ \E stocks \in CandidateSets :
        /\ categorized_stocks' = stocks
        /\ week' = week + 1
        /\ history' = UpdateFromPortfolio(history, stocks, week + 1)
        /\ new_entries' = SortedPool(Reconcile(history, stocks, week + 1), stocks, week + 1)
        /\ max_new' = AdmissionLimit(Reconcile(history, stocks, week + 1))
    /\ store' = Stored(history')
    /\ store_at_load' = store'
    /\ result' = "ok"
    /\ UNCHANGED <<foreign, pc, advice>>
    /\ runs_today' = 1
    /\ UNCHANGED v6

Next == Run

Spec == Init /\ [][Next]_vars

\* The script is started again on the same date with the same candidates:
\* update_from_portfolio looks at no date of an earlier run.
Rerun ==
    /\ runs_today >= 1 /\ runs_today < MaxRunsPerWeek
    /\ history' = UpdateFromPortfolio(history, categorized_stocks, week)
    /\ new_entries' = SortedPool(Reconcile(history, categorized_stocks, week),
                                 categorized_stocks, week)
    /\ max_new' = AdmissionLimit(Reconcile(history, categorized_stocks, week))
    /\ runs_today' = runs_today + 1
    /\ store' = Stored(history')
    /\ store_at_load' = store'
    /\ result' = "ok"
    /\ UNCHANGED <<categorized_stocks, week, foreign, pc, advice, v6>>

\* The first run of a date, in the weeks the reruns are followed through.
FirstRun == week < MaxRuns /\ Run

NextRerun == FirstRun \/ Rerun

SpecRerun == Init /\ [][NextRerun]_vars

\* One weekly run of the script variant whose update_from_portfolio counts the
\* China positions, logs the count and saves: the ledger is left as it is.
RunComplete ==
    /\ week < MaxWeek
    /\ \E stocks \in CandidateSets :
        /\ categorized_stocks' = stocks
        /\ week' = week + 1
        /\ history' = history
    /\ store' = Stored(history')
    /\ store_at_load' = store'
    /\ result' = "ok"
    /\ UNCHANGED <<foreign, pc, advice>>
    /\ runs_today' = 1
    /\ UNCHANGED <<v6, new_entries, max_new>>

\* Both variants keep their ledger in portfolio_history.json.
NextComplete == Run \/ RunComplete

SpecComplete == Init /\ [][NextComplete]_vars

\* A history file that holds closed positions only (SOLD, or REMOVED as the
\* entry test of update_from_portfolio expects them).
LegacyTickers == {CrossTicker, NumTickers}
HomeCategory(t) == IF t <= 5 THEN "best_value" ELSE IF t <= 9 THEN "high_growth" ELSE "balanced"
ClosedPosition(t, status) ==
    [category |-> HomeCategory(t), stage |-> MAX_STAGE, current_weight_pct |-> POSITION_WEIGHT,
     status |-> status, entry_date |-> 0, entry_price |-> PriceOf(t, 0),
     last_update |-> 0, current_price |-> PriceOf(t, 0), current_rank |-> 1,
     hold_weeks |-> GRACE_WEEKS, sold_date |-> 0, sold_reason |-> "dropped_from_list"]

InitLegacy ==
    /\ \E closed \in [LegacyTickers -> {"SOLD", "REMOVED"}] :
        history = [t \in Tickers |->
                     IF t \in LegacyTickers THEN ClosedPosition(t, closed[t]) ELSE NoPosition]
    /\ categorized_stocks = NoCandidates
    /\ week = 0
    /\ foreign = {}
    /\ store = Stored(history)
    /\ store_at_load = store
    /\ pc = "idle"
    /\ advice = NoAdvice
    /\ result = "none"
    /\ runs_today = 0
    /\ v6 = NoV6
    /\ new_entries = <<>>
    /\ max_new = 0

SpecLegacy == InitLegacy /\ [][Next]_vars

\* ------------------------------------------------ one process, step by step
\* load_history(): {} when the file is missing or json.load raises, otherwise
\* the JSON value the file holds, whatever its layout.  The three values of
\* the V6 layout are lists, kept under keys that are no tickers.
LoadHistory(file) ==
    IF file.kind = "ledger" THEN [records |-> file.data, foreign |-> {}]
    ELSE IF file.kind = "v6" THEN [records |-> EmptyLedger, foreign |-> V6Keys]
    ELSE [records |-> EmptyLedger, foreign |-> {}]

\* v.get('status') on a value that is a list raises AttributeError
SnapshotRaises(keys) == keys # {}

\* GPTAnalyzer: without OPENAI_API_KEY it is disabled; enabled, the request
\* is answered or raises.
GPTModes == {"disabled", "answers", "error"}

\* _basic_analysis: the candidates of each category up to its target count
BasicAnalysis(mode, stocks) ==
    [provider |-> mode, text |-> "basic",
     top |-> [c \in CategorySet |-> PySlice(stocks[c], category_targets[c])]]

\* analyze_portfolio with no try around the request
AnalyzePortfolioUncaught(mode, stocks, keys) ==
    IF mode = "disabled" THEN [raised |-> FALSE, advice |-> BasicAnalysis(mode, stocks)]
    ELSE IF mode = "answers" /\ ~SnapshotRaises(keys)
    THEN [raised |-> FALSE, advice |-> [provider |-> mode, text |-> "gpt", top |-> NoCandidates]]
    ELSE [raised |-> TRUE, advice |-> NoAdvice]

\* analyze_portfolio: the prompt (which reads the ledger) and the request are
\* inside the try; every exception ends in _basic_analysis
AnalyzePortfolio(mode, stocks, keys) ==
    IF mode = "disabled" THEN [raised |-> FALSE, advice |-> BasicAnalysis(mode, stocks)]
    ELSE IF mode = "answers" /\ ~SnapshotRaises(keys)
    THEN [raised |-> FALSE, advice |-> [provider |-> mode, text |-> "gpt", top |-> NoCandidates]]
    ELSE [raised |-> FALSE, advice |-> BasicAnalysis("error", stocks)]

\* save_history is called after allocation has been written to the ledger
SavePointEarly == "reconciled"

\* self.save_history() is the last statement of update_from_portfolio
SavePoint == "updated"

\* How a process ends: pc returns to idle, and nothing is being loaded.
Exit(how) ==
    /\ pc' = "idle"
    /\ result' = how
    /\ store_at_load' = store'

\* PeterLynchScreener(): PortfolioHistoryManager() loads the history file.
Construct ==
    /\ pc = "idle" /\ week < MaxRuns
    /\ pc' = "constructed"
    /\ week' = week + 1
    /\ history' = LoadHistory(store).records
    /\ foreign' = LoadHistory(store).foreign
    /\ store_at_load' = store
    /\ categorized_stocks' = NoCandidates
    /\ advice' = NoAdvice
    /\ result' = "running"
    /\ UNCHANGED store
    /\ UNCHANGED <<runs_today, v6, new_entries, max_new>>

\* run(): steps 1 to 4.  A step that finds nothing makes run return None.
StepsToCategorize ==
    /\ pc = "constructed"
    /\ UNCHANGED <<history, foreign, week, store, advice>>
    /\ \/ /\ \E stocks \in CandidateSets : categorized_stocks' = stocks
          /\ pc' = "categorized"
          /\ UNCHANGED <<result, store_at_load>>
       \/ /\ Exit("returned_none")
          /\ UNCHANGED categorized_stocks
    /\ UNCHANGED <<runs_today, v6, new_entries, max_new>>

\* _step6_gpt_analysis, first statement
Analyze ==
    /\ pc = "categorized"
    /\ UNCHANGED <<history, foreign, categorized_stocks, week, store>>
    /\ \E mode \in GPTModes :
        LET r == AnalyzePortfolio(mode, categorized_stocks, foreign)
        IN  IF r.raised
            THEN Exit("raised") /\ UNCHANGED advice
            ELSE /\ advice' = r.advice
                 /\ pc' = "analysed"
                 /\ UNCHANGED <<result, store_at_load>>
    /\ UNCHANGED <<runs_today, v6, new_entries, max_new>>

\* update_from_portfolio, up to the end of the loop over the ACTIVE records
UpdateReconcile ==
    /\ pc = "analysed"
    /\ UNCHANGED <<foreign, categorized_stocks, week, store, advice>>
    /\ IF SnapshotRaises(foreign)
       THEN Exit("raised") /\ UNCHANGED history
       ELSE /\ history' = Reconcile(history, categorized_stocks, week)
            /\ pc' = "reconciled"
            /\ UNCHANGED <<result, store_at_load>>
    /\ UNCHANGED <<runs_today, v6, new_entries, max_new>>

\* update_from_portfolio, the new entries
UpdateAllocate ==
    /\ pc = "reconciled"
    /\ history' = Admit(history, Admitted(history, categorized_stocks, week), week)
    /\ pc' = "updated"
    /\ UNCHANGED <<foreign, categorized_stocks, week, store, store_at_load, advice, result>>
    /\ new_entries' = SortedPool(history, categorized_stocks, week)
    /\ max_new' = AdmissionLimit(history)
    /\ UNCHANGED <<runs_today, v6>>

\* save_history: open(self.history_file, 'w') empties the file, or raises and
\* the except clause logs it
SaveOpen ==
    /\ pc = SavePoint
    /\ \E opened \in BOOLEAN :
        IF opened THEN store' = TruncatedFile /\ pc' = "opened"
        ELSE store' = store /\ pc' = "save_failed"
    /\ UNCHANGED <<history, foreign, categorized_stocks, week, store_at_load, advice, result>>
    /\ UNCHANGED <<runs_today, v6, new_entries, max_new>>

\* save_history: json.dump writes the ledger to the end, or a write raises
\* and the except clause logs it
SaveDump ==
    /\ pc = "opened"
    /\ \E written \in BOOLEAN :
        IF written THEN store' = Stored(history) /\ pc' = "saved"
        ELSE store' = TruncatedFile /\ pc' = "save_failed"
    /\ UNCHANGED <<history, foreign, categorized_stocks, week, store_at_load, advice, result>>
    /\ UNCHANGED <<runs_today, v6, new_entries, max_new>>

\* update_from_portfolio has returned: step 7, the summary, return filename
Finish ==
    /\ pc \in {"saved", "save_failed"}
    /\ UNCHANGED <<history, foreign, categorized_stocks, week, store, advice>>
    /\ Exit("ok")
    /\ UNCHANGED <<runs_today, v6, new_entries, max_new>>

\* The process is killed (power, signal) wherever it is.
Kill ==
    /\ pc # "idle"
    /\ UNCHANGED <<history, foreign, categorized_stocks, week, store, advice>>
    /\ Exit("killed")
    /\ UNCHANGED <<runs_today, v6, new_entries, max_new>>

\* _select_final_10 of the V6 script: the first 4, 4 and 2 of the lists
SelectFinal10(stocks) ==
    PySlice(stocks.best_value, 4) \o PySlice(stocks.high_growth, 4) \o PySlice(stocks.balanced, 2)

\* One weekly run of the V6 script on the same file.  Its _load_history takes
\* a missing or unreadable file as the empty V6 layout; on a ledger of the V5
\* layout update_portfolio raises KeyError('weekly_recommendations') before
\* it saves.
RunV6 ==
    /\ pc = "idle" /\ week < MaxRuns
    /\ week' = week + 1
    /\ \E stocks \in CandidateSets :
        /\ categorized_stocks' = stocks
        /\ IF store.kind = "ledger"
           THEN store' = store /\ result' = "raised"
           ELSE store' = StoredV6(SelectFinal10(stocks)) /\ result' = "ok"
    /\ store_at_load' = store'
    /\ advice' = NoAdvice
    /\ UNCHANGED <<history, foreign, pc>>
    /\ UNCHANGED <<runs_today, v6, new_entries, max_new>>

InitProcess ==
    /\ history = EmptyLedger
    /\ categorized_stocks = NoCandidates
    /\ week = 0
    /\ foreign = {}
    /\ store \in {MissingFile, MalformedFile}
    /\ store_at_load = store
    /\ pc = "idle"
    /\ advice = NoAdvice
    /\ result = "none"
    /\ runs_today = 0
    /\ v6 = NoV6
    /\ new_entries = <<>>
    /\ max_new = 0

NextProcess ==
    \/ Construct
    \/ StepsToCategorize
    \/ Analyze
    \/ UpdateReconcile
    \/ UpdateAllocate
    \/ SaveOpen
    \/ SaveDump
    \/ Finish
    \/ Kill
    \/ RunV6

SpecProcess == InitProcess /\ [][NextProcess]_vars

\* ------------------------------------------------- the V6 script, by steps
\* get_current_portfolio: history.get('current_portfolio', []); a missing or
\* unreadable file gives _init_history(), a ledger of the V5 layout has no
\* such key
LoadV6(file) == IF file.kind = "v6" THEN file.portfolio ELSE <<>>

\* analyze_changes with every held ticker reported as excluded
AnalyzeChangesKeepAll(current, recommended) ==
    [hold |-> Range(current) \cap Range(recommended),
     new_buy |-> Range(recommended) \ Range(current),
     excluded |-> Range(current)]

\* analyze_changes: set(current) against set(recommended tickers)
AnalyzeChanges(current, recommended) ==
    [hold |-> Range(current) \cap Range(recommended),
     new_buy |-> Range(recommended) \ Range(current),
     excluded |-> Range(current) \ Range(recommended)]

\* The texts the rationale provider can answer with: no line that parses, or
\* one line "<ticker>: <reason>" under one of the four section headers.  The
\* ticker can be one no list knows (0) and the reason can be empty.
Sections == {"hold", "new_buy", "sell", "watch"}
MentionedTickers == {0, CrossTicker, Head(Pool("high_growth"))}
GPTLines ==
    [section : Sections, ticker : MentionedTickers, reason : {"", "gpt_reason"}]
GPTAnswers == {<<>>} \cup {<<line>> : line \in GPTLines}

\* result[current_section][ticker] = reason
Put(reasons, t, reason) ==
    [x \in (DOMAIN reasons) \cup {t} |-> IF x = t THEN reason ELSE reasons[x]]

\* _parse_gpt_response, the loop over the lines: a line counts when its
\* ticker is a recommended or an excluded one and its reason is not empty
RECURSIVE ParseLines(_, _, _)
ParseLines(parsed, lines, all_tickers) ==
    IF Len(lines) = 0 THEN parsed
    ELSE LET line == Head(lines)
             next == IF line.ticker \in all_tickers /\ line.reason # ""
                     THEN [parsed EXCEPT ![line.section] = Put(@, line.ticker, line.reason)]
                     ELSE parsed
         IN  ParseLines(next, Tail(lines), all_tickers)

\* the parsed answer returned as it is
FillNothing(parsed, changes) == parsed

\* _parse_gpt_response, the defaults for the tickers the answer left out
FillDefaults(parsed, changes) ==
    [parsed EXCEPT
        !.hold = [t \in (DOMAIN parsed.hold) \cup changes.hold |->
                    IF t \in DOMAIN parsed.hold THEN parsed.hold[t] ELSE "hold_default"],
        !.new_buy = [t \in (DOMAIN parsed.new_buy) \cup changes.new_buy |->
                    IF t \in DOMAIN parsed.new_buy THEN parsed.new_buy[t] ELSE "new_buy_default"],
        !.sell = [t \in (DOMAIN parsed.sell)
                          \cup (changes.excluded \ ((DOMAIN parsed.sell) \cup (DOMAIN parsed.watch))) |->
                    IF t \in DOMAIN parsed.sell THEN parsed.sell[t] ELSE "sell_default"]]

ParseGPTResponse(text, recommended, changes) ==
    FillDefaults(ParseLines([NoAnalysis EXCEPT !.provider = "answers"], text,
                            Range(recommended) \cup changes.excluded),
                 changes)

\* _basic_analysis of the V6 script
BasicAnalysisV6(mode, changes) ==
    [hold |-> [t \in changes.hold |-> "hold_default"],
     new_buy |-> [t \in changes.new_buy |-> "new_buy_default"],
     sell |-> [t \in changes.excluded |-> "sell_default"],
     watch |-> NoReasons,
     provider |-> mode]

\* analyze_portfolio_actions
AnalyzePortfolioActions(mode, text, recommended, changes) ==
    IF mode = "answers" THEN ParseGPTResponse(text, recommended, changes)
    ELSE BasicAnalysisV6(mode, changes)

\* _finalize_portfolio: sell_tickers is computed and not used; every stock of
\* final_10 goes into final_portfolio['stocks']
FinalizePortfolio(final_10, analysis) == final_10

\* _update_history: one entry for each stock that is a new buy, one for each
\* ticker of the sell list
TradeLog(final_stocks, changes, analysis) ==
    {[ticker |-> t, action |-> "new_buy"] : t \in Range(final_stocks) \ changes.hold}
        \cup {[ticker |-> t, action |-> "sell"] : t \in DOMAIN analysis.sell}

\* run(): steps 1 to 4, _select_final_10, analyze_changes
V6Select ==
    /\ pc = "idle" /\ week < MaxRuns
    /\ week' = week + 1
    /\ pc' = "v6_selected"
    /\ result' = "running"
    /\ store_at_load' = store
    /\ \E stocks \in CandidateSets :
        /\ categorized_stocks' = stocks
        /\ v6' = [NoV6 EXCEPT !.final_10 = SelectFinal10(stocks),
                              !.changes = AnalyzeChanges(LoadV6(store), SelectFinal10(stocks))]
    /\ UNCHANGED <<history, foreign, store, advice, runs_today, new_entries, max_new>>

\* _step5_gpt_analysis
V6Analyze ==
    /\ pc = "v6_selected"
    /\ pc' = "v6_analysed"
    /\ \E mode \in GPTModes : \E text \in GPTAnswers :
        v6' = [v6 EXCEPT !.analysis =
                  AnalyzePortfolioActions(mode, text, v6.final_10, v6.changes)]
    /\ UNCHANGED <<history, categorized_stocks, week, foreign, store, store_at_load, advice,
                   result, runs_today, new_entries, max_new>>

\* _finalize_portfolio and _update_history; update_portfolio raises KeyError
\* on a ledger of the V5 layout before it saves
V6Update ==
    /\ pc = "v6_analysed"
    /\ pc' = "idle"
    /\ v6' = [v6 EXCEPT !.trade_log =
                 TradeLog(FinalizePortfolio(v6.final_10, v6.analysis), v6.changes, v6.analysis)]
    /\ IF store.kind = "ledger"
       THEN store' = store /\ result' = "raised"
       ELSE store' = StoredV6(FinalizePortfolio(v6.final_10, v6.analysis)) /\ result' = "ok"
    /\ store_at_load' = store'
    /\ UNCHANGED <<history, categorized_stocks, week, foreign, advice, runs_today,
                   new_entries, max_new>>

InitV6 ==
    /\ history = EmptyLedger
    /\ categorized_stocks = NoCandidates
    /\ week = 0
    /\ foreign = {}
    /\ store \in {MissingFile, Stored(EmptyLedger)}
    /\ store_at_load = store
    /\ pc = "idle"
    /\ advice = NoAdvice
    /\ result = "none"
    /\ runs_today = 0
    /\ v6 = NoV6
    /\ new_entries = <<>>
    /\ max_new = 0

NextV6 == V6Select \/ V6Analyze \/ V6Update

SpecV6 == InitV6 /\ [][NextV6]_vars

\* ------------------------------------------------------------- the claims
Listed(stocks) == UNION {Range(TopList(stocks, c)) : c \in CategorySet}

\* C1: from an empty ledger, after every cycle the sum of current_weight_pct
\* over all ACTIVE positions is at most 100.
C1_TotalWeightCap == TotalWeight(history) <= TOTAL_WEIGHT

\* The ledger is full (100%) while a listed stock is left out of it.
C1_Witness ==
    /\ TotalWeight(history) = TOTAL_WEIGHT
    /\ \E t \in Listed(categorized_stocks) : history[t].status # "ACTIVE"

\* C2: from an empty ledger, after every cycle the sum of current_weight_pct
\* over the ACTIVE positions of each category is at most the category's target
\* share (best_value 40, high_growth 40, balanced 20).
C2_CategoryWeightCap ==
    \A cat \in CategorySet :
        CategoryWeight(history, cat) <= CategoryStatus(history, cat).target_weight

\* C3: after every cycle at most MAX_CHINA_COUNT ACTIVE positions are China
\* stocks; of two China stocks that rank first in two categories on an empty
\* ledger, exactly one is admitted.
ChinaPositions(h) == {t \in ActiveTickers(h) : IsChina(t)}
C3_ChinaCap ==
    /\ Cardinality(ChinaPositions(history)) <= MAX_CHINA_COUNT
    /\ (/\ week = 1
        /\ \E c1, c2 \in CategorySet :
              /\ c1 # c2
              /\ Len(categorized_stocks[c1]) > 0 /\ IsChina(Head(categorized_stocks[c1]))
              /\ Len(categorized_stocks[c2]) > 0 /\ IsChina(Head(categorized_stocks[c2]))
              /\ Head(categorized_stocks[c1]) # Head(categorized_stocks[c2]))
       => Cardinality(ChinaPositions(history)) = 1

\* C4: a fully staged ACTIVE position stays ACTIVE in the first cycle it is
\* outside its category's target cutoff, and is sold in the second such cycle
\* in a row, however many cycles it was held inside the cutoff before.
C4_GraceExit ==
    [][\A t \in Tickers :
        LET p == history[t]
            out_now == ~InTarget(t, categorized_stocks', p.category)
            out_before == p.hold_weeks >= 1 /\ ~InTarget(t, categorized_stocks, p.category)
            same_position == /\ history'[t].status = "ACTIVE"
                             /\ history'[t].entry_date = p.entry_date
        IN  (week' = week + 1 /\ p.status = "ACTIVE" /\ p.stage = MAX_STAGE /\ out_now)
            => IF out_before THEN ~same_position
               ELSE same_position /\ history'[t].stage = MAX_STAGE]_vars

\* C5: a position is at stage 1, 2, 3 in the cycle of its admission and the
\* two that follow, with the weight of the stages entered so far; at
\* MAX_STAGE the weight is exactly 10.
RECURSIVE CumulativeWeight(_)
CumulativeWeight(stage) ==
    IF stage = 0 THEN 0 ELSE STAGE_WEIGHTS[stage] + CumulativeWeight(stage - 1)
C5_StagedEntry ==
    \A t \in Tickers :
        history[t].status = "ACTIVE" =>
            /\ history[t].stage = Min(week - history[t].entry_date + 1, MAX_STAGE)
            /\ history[t].current_weight_pct = CumulativeWeight(history[t].stage)
            /\ history[t].stage = MAX_STAGE => history[t].current_weight_pct = POSITION_WEIGHT

\* A position in the third cycle of its life: stage 3 and 10%.
C5_Witness ==
    \E t \in Tickers :
        /\ history[t].status = "ACTIVE" /\ week = history[t].entry_date + 2
        /\ history[t].stage = MAX_STAGE /\ history[t].current_weight_pct = POSITION_WEIGHT

\* C6: on an empty ledger, best_value candidates A..E alone: cycle 1 admits
\* A, B, C, D at stage 1 and 3% and leaves E out; cycle 2 on the same
\* candidates takes A..D to stage 2 and 6% and still leaves E out.
ScenarioABCD == {Pool("best_value")[i] : i \in 1..4}
ScenarioE == Pool("best_value")[5]
HeldAt(h, stage, weight) ==
    \A t \in ScenarioABCD :
        /\ h[t].status = "ACTIVE" /\ h[t].category = "best_value"
        /\ h[t].stage = stage /\ h[t].current_weight_pct = weight
C6_Scenario ==
    [][/\ (history = EmptyLedger /\ categorized_stocks' = OnlyBestValue /\ week' = week + 1)
          => HeldAt(history', 1, 3) /\ history'[ScenarioE].status = "NONE"
       /\ (/\ HeldAt(history, 1, 3)
           /\ \A t \in Tickers \ ScenarioABCD : history[t].status = "NONE"
           /\ categorized_stocks' = OnlyBestValue /\ week' = week + 1)
          => HeldAt(history', 2, 6) /\ history'[ScenarioE].status = "NONE"]_vars

\* C7: X at stage 3, 10%, hold_weeks 0, absent from its category's list in
\* two cycles in a row: ACTIVE with hold_weeks 1 after the first, and after the
\* second SOLD with the reason that names the drop from the list.
Watched(t, p, r, today) == r = [p EXCEPT !.hold_weeks = 1, !.last_update = today]
SoldAsDropped(r) == r.status = "SOLD" /\ r.sold_reason = "dropped_from_list"
FullyStaged(p) ==
    p.status = "ACTIVE" /\ p.stage = MAX_STAGE /\ p.current_weight_pct = POSITION_WEIGHT
C7_Original ==
    [][\A t \in Tickers :
        LET p == history[t]
            absent_now == ~InCategoryTop(t, categorized_stocks', p.category)
            absent_before == ~InCategoryTop(t, categorized_stocks, p.category)
        IN  (week' = week + 1 /\ FullyStaged(p) /\ absent_now) =>
              /\ p.hold_weeks = 0 => Watched(t, p, history'[t], week')
              /\ (p.hold_weeks = 1 /\ absent_before) => SoldAsDropped(history'[t])]_vars

\* C7 as amended: after the second cycle X is SOLD with that reason, unless
\* another category lists X in that cycle and the allocation of the same
\* cycle admits it there as a new stage 1 position.
FreshRecord(t, r, today) ==
    /\ r.status = "ACTIVE" /\ r.stage = 1 /\ r.current_weight_pct = STAGE_WEIGHTS[1]
    /\ r.entry_date = today /\ r.entry_price = PriceOf(t, today)
    /\ r.hold_weeks = 0 /\ r.sold_date = 0 /\ r.sold_reason = "none"
C7_AbsentTwice ==
    [][\A t \in Tickers :
        LET p == history[t]
            absent_now == ~InCategoryTop(t, categorized_stocks', p.category)
            absent_before == ~InCategoryTop(t, categorized_stocks, p.category)
        IN  (week' = week + 1 /\ FullyStaged(p) /\ absent_now) =>
              /\ p.hold_weeks = 0 => Watched(t, p, history'[t], week')
              /\ (p.hold_weeks = 1 /\ absent_before) =>
                    \/ SoldAsDropped(history'[t]) /\ history'[t].hold_weeks = GRACE_WEEKS
                    \/ /\ FreshRecord(t, history'[t], week')
                       /\ history'[t].category # p.category
                       /\ InCategoryTop(t, categorized_stocks', history'[t].category)]_vars

\* X has just been sold in its second cycle off its category's list.
C7_Witness ==
    \E t \in Tickers :
        /\ SoldAsDropped(history[t]) /\ history[t].sold_date = week
        /\ history[t].hold_weeks = GRACE_WEEKS
        /\ ~InCategoryTop(t, categorized_stocks, history[t].category)

\* C9: the stage of a recorded position is in 1..MAX_STAGE, and from one cycle
\* to the next the stage of a position that is ACTIVE and is not sold in the
\* cycle does not decrease.
SoldInCycle(t) == Reconcile(history, categorized_stocks', week')[t].status = "SOLD"
C9_StageMonotone ==
    /\ [](\A t \in Tickers : history[t].status # "NONE" => history[t].stage \in 1..MAX_STAGE)
    /\ [][\A t \in Tickers :
            (week' = week + 1 /\ history[t].status = "ACTIVE" /\ ~SoldInCycle(t)) =>
                /\ history'[t].status = "ACTIVE"
                /\ history'[t].stage >= history[t].stage]_vars

\* A position that has been through a cycle at MAX_STAGE and is still held.
C9_Witness ==
    \E t \in Tickers :
        history[t].status = "ACTIVE" /\ history[t].stage = MAX_STAGE /\ history[t].hold_weeks >= 1

\* C10: reconciliation leaves a SOLD or REMOVED record as it is; after the
\* cycle the record is unchanged, or the listed ticker has been admitted anew:
\* ACTIVE at stage 1 and 3%, entry_date and entry_price of this cycle, no
\* sold_reason.
C10_ClosedStaysClosed ==
    [][\A t \in Tickers :
        (week' = week + 1 /\ history[t].status \in {"SOLD", "REMOVED"}) =>
            /\ Reconcile(history, categorized_stocks', week')[t] = history[t]
            /\ \/ history'[t] = history[t]
               \/ /\ FreshRecord(t, history'[t], week')
                  /\ history'[t].entry_date # history[t].entry_date
                  /\ t \in Listed(categorized_stocks')]_vars

\* A closed position of the loaded ledger is ACTIVE again while a REMOVED one
\* has stayed REMOVED through a cycle.
C10_Witness ==
    /\ week >= 1
    /\ history[CrossTicker].status = "ACTIVE"
    /\ history[NumTickers].status = "REMOVED"

\* C11: loading never makes the run fail: on a history file that is missing,
\* is no JSON, or is JSON of another layout (the V6 one), the loaded ledger is
\* empty and the run goes on as with an empty portfolio, without raising.
C11_LoadNeverFails ==
    /\ [](pc = "constructed" /\ store_at_load.kind # "ledger"
            => history = EmptyLedger /\ foreign = {})
    /\ [][(pc # "idle" /\ store_at_load.kind # "ledger") => result' # "raised"]_vars

\* C12: a process that dies during save_history leaves in the file the whole
\* ledger it had loaded or the whole new ledger.
C12_AtomicSave ==
    [][(pc \in {SavePoint, "opened"} /\ result' = "killed")
        => store' \in {store_at_load, Stored(history)}]_vars

\* C13: when the write fails, update_from_portfolio still returns normally,
\* the ledger in memory is the one the cycle computed, and the file holds what
\* it held before the save.
C13_SaveFailure ==
    [][pc' = "save_failed"
        => /\ result' = "running"
           /\ history' = history
           /\ store' = store_at_load]_vars

\* C14: a process writes the file only in save_history, called once when the
\* cycle's ledger is complete; until then the file is as it was loaded, and a
\* run that ends before the save leaves it so.
C14_SaveOnceAtEnd ==
    /\ [](pc \in {"constructed", "categorized", "analysed", "reconciled", "updated"}
            => store = store_at_load)
    /\ [][/\ (store' # store /\ pc # "idle") => pc \in {"updated", "opened"}
          /\ (pc \in {"updated", "opened"} /\ store' # store)
                => pc' \in {"opened", "saved", "save_failed"} /\ pc' # pc
          /\ (pc \in {"constructed", "categorized", "analysed", "reconciled", "updated"}
                /\ pc' = "idle") => store' = store_at_load]_vars

\* A process was killed with the reconciled ledger in memory; the file holds
\* the ledger of the run before.
C14_Witness ==
    /\ pc = "idle" /\ result = "killed"
    /\ store.kind = "ledger" /\ ActiveTickers(store.data) # {}
    /\ history = Reconcile(store.data, categorized_stocks, week)
    /\ history # store.data

\* C15: whichever way the rationale provider behaves, the analysis step hands
\* over to the update without raising and without touching the ledger, the
\* updated ledger is the function of the loaded ledger and the candidates,
\* and a disabled or failing provider yields the fallback text.
C15_ProviderIndependent ==
    /\ [](pc = "analysed" =>
            /\ advice.provider \in GPTModes
            /\ advice.provider \in {"disabled", "error"}
                  => advice = BasicAnalysis(advice.provider, categorized_stocks))
    /\ [](pc = "updated" =>
            history = UpdateFromPortfolio(LoadHistory(store_at_load).records,
                                          categorized_stocks, week))
    /\ [][pc = "categorized" => result' # "raised" /\ history' = history]_vars

\* The provider failed and the cycle has admitted positions all the same.
C15_Witness ==
    /\ pc = "updated" /\ advice.provider = "error" /\ advice.text = "basic"
    /\ \E t \in Tickers : history[t].status = "ACTIVE" /\ history[t].entry_date = week

\* C16: in a cycle where a category's candidate list is empty, every ACTIVE
\* position of the category is advanced (stage < 3) or held as it is
\* (stage 3), and no position is admitted in the category.
C16_EmptyCategory ==
    [][\A c \in CategorySet :
        (week' = week + 1 /\ categorized_stocks'[c] = <<>>) =>
            \A t \in Tickers :
                IF history[t].status = "ACTIVE" /\ history[t].category = c
                THEN /\ history'[t].status = "ACTIVE"
                     /\ history'[t].category = c
                     /\ history'[t].entry_date = history[t].entry_date
                     /\ history'[t].stage = Min(history[t].stage + 1, MAX_STAGE)
                     /\ history[t].stage = MAX_STAGE =>
                            history'[t].current_weight_pct = history[t].current_weight_pct
                ELSE ~(history'[t].status = "ACTIVE" /\ history'[t].category = c)]_vars

\* C17: the portfolio the V6 script stores as current_portfolio holds at most
\* one China stock.
C17_V6ChinaCap ==
    store.kind = "v6" =>
        Cardinality({t \in Range(store.portfolio) : IsChina(t)}) <= MAX_CHINA_COUNT

\* C18: a position that is ACTIVE below MAX_STAGE when a cycle starts leaves
\* the cycle ACTIVE at the next stage, its weight raised by that stage's
\* share and hold_weeks as it was, wherever the ticker ranks.
C18_RampUnconditional ==
    [][\A t \in Tickers :
        (week' = week + 1 /\ history[t].status = "ACTIVE" /\ history[t].stage < MAX_STAGE) =>
            /\ history'[t].status = "ACTIVE"
            /\ history'[t].stage = history[t].stage + 1
            /\ history'[t].current_weight_pct =
                  history[t].current_weight_pct + STAGE_WEIGHTS[history[t].stage + 1]
            /\ history'[t].hold_weeks = history[t].hold_weeks
            /\ history'[t].category = history[t].category
            /\ history'[t].entry_date = history[t].entry_date]_vars

\* A position completed its entry in a cycle whose list did not hold it.
C18_Witness ==
    \E t \in Tickers :
        /\ history[t].status = "ACTIVE" /\ history[t].stage = MAX_STAGE
        /\ history[t].last_update = week /\ history[t].entry_date = week - 2
        /\ history[t].current_weight_pct = POSITION_WEIGHT
        /\ ~InCategoryTop(t, categorized_stocks, history[t].category)

\* C19: from an empty ledger, after every cycle each category has at most its
\* target count of ACTIVE positions.
C19_CategoryCountCap ==
    \A cat \in CategorySet :
        Cardinality(ActiveInCategory(history, cat)) <= category_targets[cat]

\* C20: allocation admits no ticker that is ACTIVE in the ledger at that
\* moment, and no record that is ACTIVE once reconciliation is done is
\* replaced by a new-entry record.
C20_NoAdmissionOfActive ==
    [][week' = week + 1 =>
        LET h1 == Reconcile(history, categorized_stocks', week')
            admitted == Admitted(h1, categorized_stocks', week')
        IN  /\ \A i \in 1..Len(admitted) :
                Admit(h1, SubSeq(admitted, 1, i - 1), week')[admitted[i].ticker].status
                    # "ACTIVE"
            /\ \A t \in ActiveTickers(h1) : history'[t] = h1[t]]_vars

\* C21: the pool of a category holds at most target_count candidates, and no
\* candidate ranked worse than its category's target count is admitted.
C21_PoolWithinTarget ==
    [][week' = week + 1 =>
        LET h1 == Reconcile(history, categorized_stocks', week')
            admitted == Admitted(h1, categorized_stocks', week')
        IN  /\ \A c \in CategorySet :
                Len(CategoryEntries(h1, categorized_stocks', c, week')) <= category_targets[c]
            /\ \A i \in 1..Len(admitted) :
                admitted[i].rank <= category_targets[admitted[i].category]]_vars

\* C22: the admitted candidates are the head of the pool in priority order:
\* no pool candidate is left out while one of a category that needs fewer
\* positions is admitted, nor while one of its own category with a worse rank
\* is admitted.  (The positions a category needs are its target less its
\* fully staged ACTIVE positions, which allocation does not change.)
C22_PriorityOrder ==
    LET admitted == PySlice(new_entries, max_new)
        taken == {new_entries[i] : i \in 1..Len(admitted)}
        left == {new_entries[j] : j \in (Len(admitted) + 1)..Len(new_entries)}
        need(c) == category_targets[c]
                     - Cardinality({t \in Tickers : /\ history[t].status = "ACTIVE"
                                                    /\ history[t].category = c
                                                    /\ history[t].stage >= MAX_STAGE})
    IN  \A a \in taken :
            /\ history[a.ticker].status = "ACTIVE"
            /\ history[a.ticker].entry_date = week
            /\ \A b \in left :
                /\ need(b.category) <= need(a.category)
                /\ b.category = a.category => b.rank > a.rank

\* A candidate was admitted in this cycle while a listed stock of another
\* category, which still has room, was left out.
C22_Witness ==
    /\ max_new > 0 /\ Len(new_entries) > max_new
    /\ \E t1, t2 \in Tickers : \E c2 \in CategorySet :
           /\ history[t1].status = "ACTIVE" /\ history[t1].entry_date = week
           /\ history[t1].category # c2
           /\ t2 \in Range(categorized_stocks[c2]) /\ history[t2].status = "NONE"
           /\ Cardinality({t \in Tickers : history[t].status = "ACTIVE" /\ history[t].category = c2})
                 < category_targets[c2]

\* C23: a fully staged ACTIVE position whose ticker ranks within the target
\* count of its category leaves the cycle as the same record with price and
\* rank of the candidate, the date of the run and hold_weeks one higher; it is
\* not sold, whatever hold_weeks is.
C23_HoldInTarget ==
    [][\A t \in Tickers :
        LET p == history[t]
            list == categorized_stocks'[p.category]
            places == {i \in 1..Min(Len(list), category_targets[p.category]) : list[i] = t}
        IN  (week' = week + 1 /\ p.status = "ACTIVE" /\ p.stage = MAX_STAGE /\ places # {}) =>
                history'[t] = [p EXCEPT !.hold_weeks = p.hold_weeks + 1,
                                        !.current_price = PriceOf(t, week'),
                                        !.current_rank = CHOOSE i \in places : TRUE,
                                        !.last_update = week']]_vars

\* A position is held within the cutoff with hold_weeks beyond the threshold.
C23_Witness ==
    \E t \in Tickers :
        /\ history[t].status = "ACTIVE" /\ history[t].stage = MAX_STAGE
        /\ history[t].hold_weeks > GRACE_WEEKS /\ history[t].last_update = week
        /\ \E i \in 1..category_targets[history[t].category] :
              /\ i <= Len(categorized_stocks[history[t].category])
              /\ categorized_stocks[history[t].category][i] = t

\* C24: every run advances every position that is ACTIVE below MAX_STAGE when
\* the run starts, the second run of a date like the first: stage and weight
\* move on twice in the same week.
C24_NoEpochGuard ==
    [][\A t \in Tickers :
        (runs_today' # runs_today /\ history[t].status = "ACTIVE"
            /\ history[t].stage < MAX_STAGE) =>
            /\ history'[t].status = "ACTIVE"
            /\ history'[t].stage = history[t].stage + 1
            /\ history'[t].current_weight_pct =
                  history[t].current_weight_pct + STAGE_WEIGHTS[history[t].stage + 1]
            /\ history'[t].entry_date = history[t].entry_date
            /\ week' = week => history'[t] # history[t]]_vars

\* A position admitted by the first run of a date is at stage 2 and 6% after
\* the second run of that date.
C24_Witness ==
    /\ runs_today = 2
    /\ \E t \in Tickers :
        /\ history[t].status = "ACTIVE" /\ history[t].entry_date = week
        /\ history[t].stage = 2 /\ history[t].current_weight_pct = 6

\* C28: from an empty ledger, after every cycle at most 10 positions (the sum
\* of the category targets) are ACTIVE, also when a category is above its own
\* target.
C28_TotalCountCap ==
    Cardinality(ActiveTickers(history))
        <= category_targets.best_value + category_targets.high_growth + category_targets.balanced

\* Ten positions are ACTIVE, five of them in best_value.
C28_Witness ==
    /\ Cardinality(ActiveTickers(history)) = 10
    /\ Cardinality({t \in Tickers : history[t].status = "ACTIVE"
                                    /\ history[t].category = "best_value"}) = 5

C30_DoubleAdmission ==
    LET admitted == PySlice(new_entries, max_new)
        EntriesOf(t) == {i \in 1..Len(admitted) : admitted[i].ticker = t}
        fresh == {t \in Tickers : history[t].status = "ACTIVE" /\ history[t].entry_date = week}
    IN  \A t \in Tickers :
            Cardinality(EntriesOf(t)) >= 2 =>
                LET last == CHOOSE i \in EntriesOf(t) : \A j \in EntriesOf(t) : j <= i
                IN  /\ history[t] = NewRecord(admitted[last], week)
                    /\ \A j \in EntriesOf(t) \ {last} :
                          /\ admitted[j].category # admitted[last].category
                          /\ admitted[j].priority_score >= admitted[last].priority_score
                    /\ Cardinality(fresh) <= Len(admitted) - (Cardinality(EntriesOf(t)) - 1)
                    /\ Len(admitted) <= max_new

\* Stock CrossTicker was admitted as best_value and again as balanced.
C30_Witness ==
    /\ Cardinality({i \in 1..Min(max_new, Len(new_entries)) :
                        new_entries[i].ticker = CrossTicker}) = 2
    /\ history[CrossTicker].status = "ACTIVE"
    /\ history[CrossTicker].category = "balanced"

\* C25: whatever the rationale provider does, the analysis of the V6 script
\* holds a non-empty reason for every ticker to hold (under hold), for every
\* new buy (under new_buy) and for every excluded ticker (under sell or
\* under watch).
C25_EveryActionHasReason ==
    pc = "v6_analysed" =>
        LET a == v6.analysis
        IN  /\ \A t \in v6.changes.hold : t \in DOMAIN a.hold /\ a.hold[t] # ""
            /\ \A t \in v6.changes.new_buy : t \in DOMAIN a.new_buy /\ a.new_buy[t] # ""
            /\ \A t \in v6.changes.excluded :
                  \/ t \in DOMAIN a.sell /\ a.sell[t] # ""
                  \/ t \in DOMAIN a.watch /\ a.watch[t] # ""

\* The provider answered: it put one excluded ticker on watch, and the other
\* tickers got the default reasons.
C25_Witness ==
    /\ pc = "v6_analysed" /\ v6.analysis.provider = "answers"
    /\ \E t \in v6.changes.excluded :
          t \in DOMAIN v6.analysis.watch /\ t \notin DOMAIN v6.analysis.sell
    /\ \E t \in v6.changes.hold : v6.analysis.hold[t] = "hold_default"
    /\ \E t \in v6.changes.excluded : t \in DOMAIN v6.analysis.sell

\* C26: analyze_changes splits the tickers: hold is what is held and
\* recommended, new_buy what is recommended and not held, excluded what is
\* held and not recommended; the three are disjoint, hold and excluded make
\* up the current portfolio, hold and new_buy the recommended set, and the
\* stored history is not changed by the call.
C26_ChangesPartition ==
    /\ [](pc \in {"v6_selected", "v6_analysed"} =>
            LET current == {store.portfolio[i] : i \in 1..Len(store.portfolio)}
                recommended == {v6.final_10[i] : i \in 1..Len(v6.final_10)}
                ch == v6.changes
            IN  /\ \A t \in Tickers :
                    /\ t \in ch.hold <=> (t \in current /\ t \in recommended)
                    /\ t \in ch.new_buy <=> (t \in recommended /\ t \notin current)
                    /\ t \in ch.excluded <=> (t \in current /\ t \notin recommended)
                /\ ch.hold \cup ch.new_buy \cup ch.excluded \subseteq Tickers
                /\ ch.hold \cap ch.new_buy = {} /\ ch.hold \cap ch.excluded = {}
                /\ ch.new_buy \cap ch.excluded = {}
                /\ ch.hold \cup ch.excluded = current
                /\ ch.hold \cup ch.new_buy = recommended)
    /\ [][pc' = "v6_selected" => store' = store]_vars

\* A week in which some tickers are held on, some bought and some excluded.
C26_Witness ==
    /\ pc = "v6_selected"
    /\ v6.changes.hold # {} /\ v6.changes.new_buy # {} /\ v6.changes.excluded # {}

\* C27: no ticker of the analysis' sell list is in the final portfolio: after
\* the history update no ticker is in the saved current_portfolio and logged
\* as sold by the same run.
C27_SellExcluded ==
    (pc = "idle" /\ result = "ok" /\ store.kind = "v6") =>
        \A i \in 1..Len(store.portfolio) :
            /\ store.portfolio[i] \notin DOMAIN v6.analysis.sell
            /\ [ticker |-> store.portfolio[i], action |-> "sell"] \notin v6.trade_log

====
